---- MODULE Spec2Model ----
(***************************************************************************)
(* A model of the AutopilotAI backend: the users table, the saved_content  *)
(* table, the generation endpoints (/api/ads, /api/content, /api/email),   *)
(* /api/auth/usage, /api/auth/register, /api/auth/me, the password reset, *)
(* the profile endpoints, the dashboard tasks and the Stripe webhook.      *)
(*                                                                         *)
(* Every request first runs the dependency get_current_user, which loads   *)
(* the User row in a session of its own and closes it: the handler then    *)
(* works on a detached in-memory copy, and what it commits are the columns *)
(* it changed on that copy.  A handler is modelled in the steps between    *)
(* which it waits: the dependency, the handler up to the call of the model *)
(* API, the API's reply with the commit, the image API's reply.            *)
(***************************************************************************)
EXTENDS Integers, Sequences, FiniteSets, TLC

VARIABLES
    now,       \* datetime.utcnow(), in ticks
    users,     \* table users: id -> row
    profiles,  \* table profiles: user_id -> row, for the users that have one
    saved,     \* table saved_content, in insertion order
    reqs,      \* the requests in flight, one per worker
    last,      \* the response returned since the last request arrived
    creds,     \* table users, columns password, reset_token, reset_token_expires
    issued,    \* the password-reset tokens generated so far, with their accounts
    tasks      \* table tasks: id -> row

vars == <<now, users, profiles, saved, reqs, last, creds, issued, tasks>>

----------------------------------------------------------------------------
(* Bounds of the model *)

NumUsers == 1        \* user ids 1..NumUsers
MaxReq == 2          \* workers
MaxSaved == 2        \* rows of saved_content
MaxTicks == 2        \* clock ticks after the start of the run
TicksPerMonth == 2   \* clock ticks in one calendar month
MaxTokens == 2       \* password-reset tokens generated
MaxTasks == 2        \* rows of tasks

(* Program constants *)

MonthsPerYear == 12
FreeLimit == 10
BasicLimit == 100
RegisterLimit == 10
DefaultMonthlyLimit == 50
WebhookBasicLimit == 100
WebhookGrowthLimit == 500
WebhookProLimit == 1500
ResetTokenHours == 1

NULL == 0 - 1        \* Python None / SQL NULL in an integer or datetime column

UserIds == 1..NumUsers
ReqIds == 1..MaxReq

----------------------------------------------------------------------------
(* datetime: a tick count since the first instant of year 0 *)

TicksPerYear == TicksPerMonth * MonthsPerYear
StartTime == TicksPerYear         \* the run starts on the first instant of year 1
LastTime == StartTime + MaxTicks
MonthOf(t) == ((t \div TicksPerMonth) % MonthsPerYear) + 1
YearOf(t) == t \div TicksPerYear

----------------------------------------------------------------------------
(* app/utils/usage.py *)

PlanKeys == {"free", "basic", "growth", "pro"}

PLAN_LIMITS(p) ==
    IF p = "free" THEN FreeLimit
    ELSE IF p = "basic" THEN BasicLimit
    ELSE NULL

get_user_limit(subscription_plan) ==
    IF subscription_plan \in PlanKeys
    THEN PLAN_LIMITS(subscription_plan)
    ELSE FreeLimit

(* mutant: the timestamp is refreshed on every call *)
reset_if_new_month_stamp(user, t) ==
    IF user.last_reset = NULL
    THEN [user EXCEPT !.last_reset = t, !.used = 0]
    ELSE IF MonthOf(user.last_reset) # MonthOf(t) \/ YearOf(user.last_reset) # YearOf(t)
         THEN [user EXCEPT !.used = 0, !.last_reset = t]
         ELSE [user EXCEPT !.last_reset = t]

(* mutant: only the month numbers are compared *)
reset_if_new_month_month_only(user, t) ==
    IF user.last_reset = NULL
    THEN [user EXCEPT !.last_reset = t, !.used = 0]
    ELSE IF MonthOf(user.last_reset) # MonthOf(t)
         THEN [user EXCEPT !.used = 0, !.last_reset = t]
         ELSE user

(* mutant: the first use sets the timestamp and keeps the count *)
reset_if_new_month_keep_count(user, t) ==
    IF user.last_reset = NULL
    THEN [user EXCEPT !.last_reset = t]
    ELSE IF MonthOf(user.last_reset) # MonthOf(t) \/ YearOf(user.last_reset) # YearOf(t)
         THEN [user EXCEPT !.used = 0, !.last_reset = t]
         ELSE user

reset_if_new_month(user, t) ==
    IF user.last_reset = NULL
    THEN [user EXCEPT !.last_reset = t, !.used = 0]
    ELSE IF MonthOf(user.last_reset) # MonthOf(t) \/ YearOf(user.last_reset) # YearOf(t)
         THEN [user EXCEPT !.used = 0, !.last_reset = t]
         ELSE user

----------------------------------------------------------------------------
(* Rows, requests, responses *)

Row(plan, monthly_limit, used, last_reset) ==
    [plan |-> plan, monthly_limit |-> monthly_limit,
     used |-> used, last_reset |-> last_reset]

NoRow == Row("", NULL, NULL, NULL)

(* A row of table profiles: of its text columns the model keeps brand_tone *)
ProfileRow(brand_tone) == [brand_tone |-> brand_tone]

GenKinds == {"ad", "content", "email"}

(* loaded: the row as get_current_user read it; user: the in-memory object;
   checked: the object as the limit comparison saw it. *)
IdleReq ==
    [pc |-> "idle", kind |-> "none", uid |-> 0, image |-> FALSE,
     loaded |-> NoRow, user |-> NoRow, checked |-> NoRow]

(* A response: what the request was (loaded: the row it read), what the
   handler did, what it returned *)
Response(q, valid, called, api, stored, img, resp) ==
    [kind |-> q.kind, uid |-> q.uid, valid |-> valid, image |-> q.image,
     loaded |-> q.loaded,
     checked |-> q.checked, limit |-> get_user_limit(q.checked.plan),
     called |-> called, api |-> api, stored |-> stored, img |-> img, resp |-> resp]

NoResponse ==
    [kind |-> "none", uid |-> 0, valid |-> FALSE, image |-> FALSE,
     loaded |-> NoRow,
     checked |-> NoRow, limit |-> NULL,
     called |-> FALSE, api |-> "none", stored |-> FALSE, img |-> "none",
     resp |-> "none"]

(* What the model API's reply can be: text, an empty or whitespace-only string,
   or an exception.  A message whose content is None is "empty" to generate_ads
   and generate_email ((content or "").strip()) and an exception to
   generate_content (None.strip()). *)
ApiResults == {"text", "empty", "raise"}

----------------------------------------------------------------------------
(* SQLAlchemy unit of work: db.add(user); db.commit() writes the columns whose
   value differs from the value loaded, and leaves the others as stored. *)

(* mutant: the timestamp of the reset is not written *)
Flush_count_only(stored, loaded, user) ==
    [stored EXCEPT
        !.used = IF user.used # loaded.used THEN user.used ELSE @]

Flush(stored, loaded, user) ==
    [stored EXCEPT
        !.used = IF user.used # loaded.used THEN user.used ELSE @,
        !.last_reset = IF user.last_reset # loaded.last_reset THEN user.last_reset ELSE @]

----------------------------------------------------------------------------
(* The generation handlers: generate_ads, generate_content, generate_email *)

(* mutant: > for >= *)
LimitReached_gt(user) ==
    LET limit == get_user_limit(user.plan)
    IN  limit # NULL /\ user.used > limit

(* mutant: the last unit of the quota is never granted *)
LimitReached_early(user) ==
    LET limit == get_user_limit(user.plan)
    IN  limit # NULL /\ user.used + 1 >= limit

(* mutant: the limit is the monthly_limit column, which no plan leaves NULL *)
LimitReached_monthly(user) ==
    user.monthly_limit # NULL /\ user.used >= user.monthly_limit

LimitReached(user) ==
    LET limit == get_user_limit(user.plan)
    IN  limit # NULL /\ user.used >= limit

(* None >= limit raises TypeError: a NULL count that no reset replaced, on a
   plan with a finite limit. *)
LimitCheckRaises(user) ==
    get_user_limit(user.plan) # NULL /\ user.used = NULL

(* mutant: the attributes are read from whatever the query returned, None
   included *)
ProfileRaises_unguarded(kind, uid) ==
    kind \in {"ad", "content"}

(* The Profile model has none of the columns use_emojis, length_pref,
   creativity_level, cta_style: generate_ads and build_behavior_rules read
   them from a stored profile and raise AttributeError; build_email_personality
   guards each with hasattr. *)
ProfileRaises(kind, uid) ==
    kind \in {"ad", "content"} /\ uid \in DOMAIN profiles

(* mutant: the input is validated before the quota is looked at *)
CheckOutcome_validate_first(kind, uid, user, valid) ==
    IF ~valid THEN "invalid"
    ELSE IF LimitCheckRaises(user) THEN "error"
    ELSE IF LimitReached(user) THEN "quota"
    ELSE IF ProfileRaises(kind, uid) THEN "error"
    ELSE "call"

CheckOutcome(kind, uid, user, valid) ==
    IF LimitCheckRaises(user) THEN "error"
    ELSE IF LimitReached(user) THEN "quota"
    ELSE IF ~valid THEN "invalid"
    ELSE IF ProfileRaises(kind, uid) THEN "error"
    ELSE "call"

(* mutant: the limit is compared before the month is looked at *)
CheckedUser_stale(user, t) == user

(* The object the limit comparison sees: reset_if_new_month runs first *)
CheckedUser(user, t) == reset_if_new_month(user, t)

(* mutant: a generation costs two units *)
Consume_double(user) ==
    [user EXCEPT !.used = (IF @ = NULL THEN 0 ELSE @) + 2]

(* mutant: no normalisation of a NULL count *)
Consume_raw(user) ==
    [user EXCEPT !.used = @ + 1]

Consume(user) ==
    [user EXCEPT !.used = (IF @ = NULL THEN 0 ELSE @) + 1]

(* mutant: an empty reply is replaced by a placeholder text and kept *)
NonEmptyOutput_placeholder(api) == api \in {"text", "empty"}

NonEmptyOutput(api) == api = "text"

ImageLocked(user) == user.plan = "free"

(* utils/auth.py get_current_user: load the row, close the session, hand the
   detached object to the handler.  The pool gives a request its first free
   worker. *)
get_current_user(r, u, kind) ==
    /\ reqs[r].pc = "idle"
    /\ \A q \in ReqIds : q < r => reqs[q].pc # "idle"
    /\ u \in DOMAIN users
    /\ kind \in GenKinds =>
          Len(saved) + Cardinality({q \in ReqIds : reqs[q].pc \in {"loaded", "calling"}
                                                  /\ reqs[q].kind \in GenKinds}) < MaxSaved
    /\ reqs' = [reqs EXCEPT ![r] =
                   [IdleReq EXCEPT !.pc = "loaded", !.kind = kind, !.uid = u,
                                   !.loaded = users[u], !.user = users[u]]]
    /\ last' = NoResponse
    /\ UNCHANGED <<now, users, profiles, saved, creds, issued, tasks>>

(* The handler up to the call of the model API: reset check, limit check,
   input validation, profile load. *)
generate_check(r, valid, image) ==
    /\ reqs[r].pc = "loaded"
    /\ reqs[r].kind \in GenKinds
    /\ image => reqs[r].kind = "content"
    /\ LET user == CheckedUser(reqs[r].user, now)
           out == CheckOutcome(reqs[r].kind, reqs[r].uid, user, valid)
           q == [reqs[r] EXCEPT !.image = image, !.user = user, !.checked = user]
       IN  IF out = "call"
           THEN /\ reqs' = [reqs EXCEPT ![r] = [q EXCEPT !.pc = "calling"]]
                /\ last' = last
           ELSE /\ reqs' = [reqs EXCEPT ![r] = IdleReq]
                /\ last' = Response(q, valid, FALSE, "none", FALSE, "none", out)
    /\ UNCHANGED <<now, users, profiles, saved, creds, issued, tasks>>

(* mutant: the SavedContent row is committed on its own, before the count *)
SavedAfter_own_commit(r, committed, api) ==
    IF NonEmptyOutput(api)
    THEN Append(saved, [user_id |-> reqs[r].uid, content_type |-> reqs[r].kind])
    ELSE saved

(* mutant: the commit rewrites the owner of the rows already stored *)
SavedAfter_rewrite(r, committed, api) ==
    IF committed
    THEN [i \in 1..(Len(saved) + 1) |->
            [user_id |-> reqs[r].uid,
             content_type |-> IF i <= Len(saved) THEN saved[i].content_type
                              ELSE reqs[r].kind]]
    ELSE saved

SavedAfter(r, committed, api) ==
    IF committed
    THEN Append(saved, [user_id |-> reqs[r].uid, content_type |-> reqs[r].kind])
    ELSE saved

(* mutant: the increment is done by the database, on the stored count *)
UsersAfter_atomic(r, committed) ==
    IF committed
    THEN [users EXCEPT ![reqs[r].uid] =
            [Flush(@, reqs[r].loaded, reqs[r].user) EXCEPT
                !.used = Consume(users[reqs[r].uid]).used]]
    ELSE users

UsersAfter(r, committed) ==
    IF committed
    THEN [users EXCEPT ![reqs[r].uid] = Flush(@, reqs[r].loaded, Consume(reqs[r].user))]
    ELSE users

(* The model API returns: on non-empty text the handler adds the SavedContent
   row and the incremented user to the session and commits both at once,
   then refreshes the user. commit_ok = FALSE is a commit that raises. *)
generate_complete(r, api, commit_ok) ==
    /\ reqs[r].pc = "calling"
    /\ LET committed == NonEmptyOutput(api) /\ commit_ok
           fresh == UsersAfter(r, committed)[reqs[r].uid]
           imaging == committed /\ reqs[r].image /\ ~ImageLocked(fresh)
       IN  /\ saved' = SavedAfter(r, committed, api)
           /\ users' = UsersAfter(r, committed)
           /\ IF imaging
              THEN /\ reqs' = [reqs EXCEPT ![r] =
                                 [@ EXCEPT !.pc = "imaging", !.user = fresh, !.loaded = fresh]]
                   /\ last' = last
              ELSE /\ reqs' = [reqs EXCEPT ![r] = IdleReq]
                   /\ last' = Response(reqs[r], TRUE, TRUE, api, committed,
                                       IF committed /\ reqs[r].image THEN "locked" ELSE "none",
                                       IF committed THEN "ok" ELSE "genfail")
    /\ UNCHANGED <<now, profiles, creds, issued, tasks>>

(* generate_content, paid user with generate_image: the image API returns. *)
generate_image(r, ok) ==
    /\ reqs[r].pc = "imaging"
    /\ reqs' = [reqs EXCEPT ![r] = IdleReq]
    /\ last' = Response(reqs[r], TRUE, TRUE, "text", TRUE,
                        IF ok THEN "url" ELSE "failed",
                        IF ok THEN "ok" ELSE "genfail")
    /\ UNCHANGED <<now, users, profiles, saved, creds, issued, tasks>>

(* routes/usage_routes.py get_usage: reset, add, commit, refresh; the limit
   reported is looked up on the refreshed row. *)
get_usage(r) ==
    /\ reqs[r].pc = "loaded"
    /\ reqs[r].kind = "usage"
    /\ LET user == reset_if_new_month(reqs[r].user, now)
           row == Flush(users[reqs[r].uid], reqs[r].loaded, user)
       IN  /\ users' = [users EXCEPT ![reqs[r].uid] = row]
           /\ last' = Response([reqs[r] EXCEPT !.checked = row],
                               TRUE, FALSE, "none", FALSE, "none", "ok")
    /\ reqs' = [reqs EXCEPT ![r] = IdleReq]
    /\ UNCHANGED <<now, profiles, saved, creds, issued, tasks>>

(* mutant: the profile updated is the first row of the table *)
ProfileOf_first(uid) ==
    CHOOSE x \in DOMAIN profiles : \A y \in DOMAIN profiles : x <= y

(* db_user.profile: the profiles row whose user_id is the user's id *)
ProfileOf(uid) == uid

ProfileTones == {"", "bold"}

(* routes/profile_routes.py update_profile.  With no row yet the handler calls
   Profile(..., use_emojis=...), a keyword the model class does not declare:
   TypeError, nothing is written.  With a row it assigns the columns and
   commits. *)
update_profile(r, brand_tone) ==
    /\ reqs[r].pc = "loaded"
    /\ reqs[r].kind = "profile_update"
    /\ IF reqs[r].uid \in DOMAIN profiles
       THEN /\ profiles' = [profiles EXCEPT ![ProfileOf(reqs[r].uid)] = ProfileRow(brand_tone)]
            /\ last' = Response(reqs[r], TRUE, FALSE, "none", FALSE, "none", "ok")
       ELSE /\ profiles' = profiles
            /\ last' = Response(reqs[r], TRUE, FALSE, "none", FALSE, "none", "error")
    /\ reqs' = [reqs EXCEPT ![r] = IdleReq]
    /\ UNCHANGED <<now, users, saved, creds, issued, tasks>>

(* the password and reset columns of a users row *)
Cred(password, reset_token, reset_token_expires) ==
    [password |-> password, reset_token |-> reset_token,
     reset_token_expires |-> reset_token_expires]

(* bcrypt.hashpw: the salt is left out, the hash determines the password *)
hashpw(password) == <<"bcrypt", password>>

(* the columns as register leaves them *)
FirstCred == Cred(hashpw("pw0"), NULL, NULL)

(* routes/auth_routes.py register: ids are handed out in order; last_reset
   takes the column default datetime.utcnow. *)
register ==
    /\ Cardinality(DOMAIN users) < NumUsers
    /\ LET id == Cardinality(DOMAIN users) + 1
       IN  /\ users' = [x \in DOMAIN users \cup {id} |->
                       IF x = id THEN Row("Free", RegisterLimit, 0, now) ELSE users[x]]
           /\ creds' = [x \in DOMAIN users \cup {id} |->
                          IF x = id THEN FirstCred ELSE creds[x]]
    /\ UNCHANGED <<now, profiles, saved, reqs, last, issued, tasks>>

WebhookMonthlyLimit(plan, old) ==
    IF plan = "basic" THEN WebhookBasicLimit
    ELSE IF plan = "growth" THEN WebhookGrowthLimit
    ELSE IF plan = "pro" THEN WebhookProLimit
    ELSE old

(* mutant: the upgrade keeps the count *)
stripe_webhook_keep_count(user_id, plan) ==
    /\ IF user_id \in DOMAIN users
       THEN users' = [users EXCEPT ![user_id] =
                        [@ EXCEPT !.plan = plan,
                                  !.monthly_limit = WebhookMonthlyLimit(plan, @)]]
       ELSE users' = users
    /\ last' = Response([IdleReq EXCEPT !.kind = "webhook", !.uid = user_id,
                                        !.checked = Row(plan, NULL, NULL, NULL)],
                        TRUE, FALSE, "none", FALSE, "none", "ok")
    /\ UNCHANGED <<now, profiles, saved, reqs, creds, issued, tasks>>

(* routes/stripe_routes.py stripe_webhook, event checkout.session.completed;
   its response is {"status": "ok"} whether or not the user exists *)
stripe_webhook(user_id, plan) ==
    /\ IF user_id \in DOMAIN users
       THEN users' = [users EXCEPT ![user_id] =
                        [@ EXCEPT !.plan = plan,
                                  !.monthly_limit = WebhookMonthlyLimit(plan, @),
                                  !.used = 0]]
       ELSE users' = users
    /\ last' = Response([IdleReq EXCEPT !.kind = "webhook", !.uid = user_id,
                                        !.checked = Row(plan, NULL, NULL, NULL)],
                        TRUE, FALSE, "none", FALSE, "none", "ok")
    /\ UNCHANGED <<now, profiles, saved, reqs, creds, issued, tasks>>

(* The clock *)
Tick ==
    /\ now < LastTime
    /\ now' = now + 1
    /\ UNCHANGED <<users, profiles, saved, reqs, last, creds, issued, tasks>>

(* datetime.utcnow() reads the system's wall clock, which is not monotonic:
   the next reading is any time. *)
utcnow(t) ==
    /\ t # now
    /\ now' = t
    /\ UNCHANGED <<users, profiles, saved, reqs, last, creds, issued, tasks>>

----------------------------------------------------------------------------
(* The database when the run starts: user 1 is an account of an earlier
   month or an earlier deployment, with any of the values the columns of
   such a row hold; the other users registered as the run starts. *)

StoredPlans == {"Free", "basic", "growth", "pro"}
StoredCounts(plan) ==
    LET limit == get_user_limit(plan)
    IN  {NULL, 0} \cup (IF limit = NULL THEN {BasicLimit} ELSE {limit - 1, limit})
StoredResets == {NULL, 0, StartTime - 1, StartTime}

Init ==
    /\ now = StartTime
    /\ \E p \in StoredPlans, t \in StoredResets :
          \E c \in StoredCounts(p) :
             users = [x \in UserIds |->
                        IF x = 1 THEN Row(p, DefaultMonthlyLimit, c, t)
                        ELSE Row("Free", RegisterLimit, 0, StartTime)]
    /\ \E S \in SUBSET {1} : profiles = [x \in S |-> ProfileRow("")]
    /\ saved = <<>>
    /\ reqs = [r \in ReqIds |-> IdleReq]
    /\ last = NoResponse
    /\ creds = [x \in DOMAIN users |-> FirstCred]
    /\ issued = <<>>
    /\ tasks = <<>>

AllIdle == \A r \in ReqIds : reqs[r].pc = "idle"

(* The steps of the requests in flight *)
Handle ==
    \/ \E r \in ReqIds, valid \in BOOLEAN, image \in BOOLEAN :
          generate_check(r, valid, image)
    \/ \E r \in ReqIds, api \in ApiResults, commit_ok \in BOOLEAN :
          generate_complete(r, api, commit_ok)
    \/ \E r \in ReqIds, ok \in BOOLEAN : generate_image(r, ok)
    \/ \E r \in ReqIds : get_usage(r)

(* Spec: the requests are served one after the other, as the time passes *)
Next ==
    \/ AllIdle /\ \E r \in ReqIds, u \in UserIds, k \in GenKinds \cup {"usage"} :
                     get_current_user(r, u, k)
    \/ Handle
    \/ Tick

Spec == Init /\ [][Next]_vars

----------------------------------------------------------------------------
(* PlanSpec: accounts are registered, upgraded by checkout events that name a
   plan in any spelling, and ask for their usage. *)

PlanNames == {"free", "Free", "basic", "BASIC", "growth", "Growth", "pro", "Pro", "gold", ""}

PlanInit ==
    /\ now = StartTime
    /\ \/ users = <<>>
       \/ \E p \in PlanNames :
             users = [x \in {1} |-> Row(p, DefaultMonthlyLimit, 0, StartTime)]
    /\ profiles = <<>>
    /\ saved = <<>>
    /\ reqs = [r \in ReqIds |-> IdleReq]
    /\ last = NoResponse
    /\ creds = [x \in DOMAIN users |-> FirstCred]
    /\ issued = <<>>
    /\ tasks = <<>>

PlanNext ==
    \/ AllIdle /\ \E r \in ReqIds, u \in UserIds : get_current_user(r, u, "usage")
    \/ \E r \in ReqIds : get_usage(r)
    \/ AllIdle /\ register
    \/ AllIdle /\ \E u \in UserIds, p \in PlanNames : stripe_webhook(u, p)
    \/ Tick

PlanSpec == PlanInit /\ [][PlanNext]_vars

----------------------------------------------------------------------------
(* ClockSpec: reset_if_new_month applied, by usage requests served one after
   the other, to every stored row at every reading of the clock. *)

Times == 0..LastTime

(* the times at which the clock is read: the stored timestamps and the ticks
   of the run *)
ClockReadings == (StoredResets \ {NULL}) \cup (StartTime..LastTime)

ClockNext ==
    \/ AllIdle /\ \E r \in ReqIds, u \in UserIds : get_current_user(r, u, "usage")
    \/ \E r \in ReqIds : get_usage(r)
    \/ \E t \in ClockReadings : utcnow(t)

ClockSpec == Init /\ [][ClockNext]_vars

----------------------------------------------------------------------------
(* BillingSpec: one calendar month of requests served one after the other,
   in which checkout events arrive at any moment, also while a request is
   being served, for accounts that exist and for ids that do not. *)

(* the plans create_checkout_session puts into a session's metadata *)
CheckoutPlans == {"basic", "growth", "pro"}

EventUserIds == {1, NumUsers + 1}

TickInMonth == Tick /\ MonthOf(now') = MonthOf(now) /\ YearOf(now') = YearOf(now)

BillingInit == Init /\ profiles = <<>>

(* the requests are email generations with their input present and usage
   requests *)
BillingNext ==
    \/ AllIdle /\ \E r \in ReqIds, u \in UserIds, k \in {"email", "usage"} :
                     get_current_user(r, u, k)
    \/ \E r \in ReqIds : generate_check(r, TRUE, FALSE)
    \/ \E r \in ReqIds, api \in ApiResults, commit_ok \in BOOLEAN :
          generate_complete(r, api, commit_ok)
    \/ \E r \in ReqIds : get_usage(r)
    \/ \E u \in EventUserIds, p \in CheckoutPlans : stripe_webhook(u, p)
    \/ TickInMonth

BillingSpec == BillingInit /\ [][BillingNext]_vars

----------------------------------------------------------------------------
(* ConcSpec: the requests of two accounts served concurrently, two at a time,
   in any interleaving of their steps, within one month. *)

(* two accounts: the first of the table and one registered after the others *)
ConcUserIds == {1, NumUsers + 1}

ConcInit ==
    /\ now = StartTime
    /\ \E p \in StoredPlans :
          \E c \in StoredCounts(p) :
             users = [x \in ConcUserIds |->
                        IF x = 1 THEN Row(p, DefaultMonthlyLimit, c, StartTime)
                        ELSE Row("Free", RegisterLimit, 0, StartTime)]
    /\ \E S \in {{}, ConcUserIds} : profiles = [x \in S |-> ProfileRow("")]
    /\ saved = <<>>
    /\ reqs = [r \in ReqIds |-> IdleReq]
    /\ last = NoResponse
    /\ creds = [x \in DOMAIN users |-> FirstCred]
    /\ issued = <<>>
    /\ tasks = <<>>

(* the requests in flight *)
InFlight == {q \in ReqIds : reqs[q].pc # "idle"}

(* a request arrives while at most one other is in flight *)
ConcNext ==
    \/ /\ Cardinality(InFlight) < Cardinality(ConcUserIds)
       /\ \E r \in ReqIds, u \in ConcUserIds, k \in {"email", "usage", "profile_update"} :
             get_current_user(r, u, k)
    \/ \E r \in ReqIds : generate_check(r, TRUE, FALSE)
    \/ \E r \in ReqIds, api \in ApiResults : generate_complete(r, api, TRUE)
    \/ \E r \in ReqIds : get_usage(r)
    \/ \E r \in ReqIds, t \in ProfileTones : update_profile(r, t)

ConcSpec == ConcInit /\ [][ConcNext]_vars

----------------------------------------------------------------------------
(* DirectiveSpec: the three builders of personality directives, applied to the
   profile objects a handler can hand them. *)

(* db.query(Profile)....first() found no row: None *)
NoProfile == [is_none |-> TRUE]

(* an object that carries the five personality attributes the builders read *)
PersonalityProfile(tone, emojis, hashtags, length, creativity, cta) ==
    [brand_tone |-> tone, use_emojis |-> emojis, use_hashtags |-> hashtags,
     length_pref |-> length, creativity_level |-> creativity, cta_style |-> cta]

(* ai/ads_routes.py: the stand-in generate_ads uses when there is no row *)
Dummy == PersonalityProfile("", TRUE, TRUE, "medium", 5, "balanced")

LengthPrefs == {"short", "medium", "long", "LONG", "xl"}

CtaStyles == {"soft", "balanced", "aggressive", "strong", "none", "pushy"}

CreativityLevels == {NULL, 2, 5, 9}

(* what a builder can be handed: None, a row of the Profile model (which has
   none of the personality attributes), an object that has them *)
ProfileObjects ==
    {NoProfile}
    \cup {ProfileRow(t) : t \in ProfileTones}
    \cup {PersonalityProfile("", e, h, l, c, a) :
            e \in BOOLEAN, h \in BOOLEAN,
            l \in LengthPrefs, c \in CreativityLevels, a \in CtaStyles}

hasattr(profile, name) == name \in DOMAIN profile

(* str.lower() on the values of LengthPrefs, CtaStyles and Platforms *)
lower(s) ==
    IF s = "LONG" THEN "long"
    ELSE IF s = "TikTok" THEN "tiktok"
    ELSE s

(* str(x) inside an f-string *)
str(x) == IF x = NULL THEN "None" ELSE ToString(x)

(* a builder's outcomes: the exception it raised, or its rules in order *)
Raised(exception) == [raised |-> exception, rules |-> <<>>]

Built(rules) == [raised |-> "none", rules |-> rules]

(* ai/ads_routes.py length_rule *)
ads_length_rule(length_pref) ==
    IF length_pref = "short" THEN "Very short punchy ad copy."
    ELSE IF length_pref = "medium" THEN "Balanced ad length."
    ELSE "More detailed, persuasive ad copy."

(* ai/ads_routes.py cta_rule: a dict lookup with a default *)
ads_cta_rule(cta_style) ==
    IF cta_style = "soft" THEN "Use gentle CTA wording."
    ELSE IF cta_style = "balanced" THEN "Use confident but friendly CTA."
    ELSE IF cta_style = "aggressive" THEN "Use strong, decisive CTA."
    ELSE "Balanced CTA."

(* ai/ads_routes.py generate_ads, SAFE PROFILE LOAD and PERSONALITY RULES, in
   the order the system prompt lists them.  A row of the Profile model has no
   use_emojis: the first rule raises AttributeError.  writing_style, which
   the rows here do not carry, is empty. *)
ads_personality_rules(found) ==
    LET profile == IF found = NoProfile THEN Dummy ELSE found
    IN  IF ~hasattr(profile, "use_emojis") THEN Raised("AttributeError")
        ELSE Built(<<
               IF profile.use_emojis THEN "Emojis allowed when natural."
               ELSE "Do NOT use emojis.",
               IF profile.use_hashtags THEN "Use relevant hashtags when logical."
               ELSE "Do NOT use hashtags.",
               ads_length_rule(profile.length_pref),
               ads_cta_rule(profile.cta_style),
               IF profile.brand_tone # "" THEN profile.brand_tone
               ELSE "Confident, modern marketing tone.",
               "Clear, persuasive writing style.",
               "Creativity level: " \o str(profile.creativity_level) \o "/10" >>)

(* ai/content_routes.py build_behavior_rules, one element per line *)
build_behavior_rules(profile) ==
    IF profile = NoProfile
    THEN Built(<< "AI Behavior Rules:",
                  "- Use a balanced tone",
                  "- Normal creativity",
                  "- Emojis allowed",
                  "- Hashtags allowed",
                  "- Medium length content",
                  "- Soft marketing CTA" >>)
    ELSE IF ~hasattr(profile, "creativity_level") THEN Raised("AttributeError")
    ELSE
      LET creativity == IF profile.creativity_level \in {NULL, 0} THEN 5
                        ELSE profile.creativity_level
          length == lower(profile.length_pref)
          cta == lower(profile.cta_style)
      IN  Built(<<
            "AI Behavior Rules:",
            IF creativity <= 3 THEN "- Keep creativity low. Be factual and direct."
            ELSE IF creativity <= 7 THEN "- Medium creativity. Natural but not crazy."
            ELSE "- Very creative, engaging and bold.",
            IF profile.use_emojis = FALSE THEN "- DO NOT use emojis."
            ELSE "- Emojis allowed.",
            IF profile.use_hashtags = FALSE THEN "- DO NOT include hashtags."
            ELSE "- Hashtags allowed where appropriate.",
            IF length = "short" THEN "- Keep responses short and punchy."
            ELSE IF length = "long" THEN "- Provide longer, more detailed content."
            ELSE "- Medium length responses.",
            IF cta = "strong" THEN "- Use strong persuasive CTA."
            ELSE IF cta = "none" THEN "- No marketing CTA."
            ELSE "- Use soft CTA tone." >>)

(* ai/email_routes.py build_email_personality: the list of rules before the
   join.  Each personality attribute is guarded by hasattr; None <= 3 is a
   TypeError.  writing_style and signature, which the rows here do not carry,
   are empty and add no rule. *)
build_email_personality(profile) ==
    IF profile = NoProfile THEN Built(<<>>)
    ELSE IF hasattr(profile, "creativity_level") /\ profile.creativity_level = NULL
    THEN Raised("TypeError")
    ELSE
      Built(
        (IF ~hasattr(profile, "use_emojis") THEN <<>>
         ELSE IF profile.use_emojis
              THEN <<"You MAY use emojis when helpful but not childish.">>
              ELSE <<"DO NOT use emojis anywhere.">>)
        \o
        (IF ~hasattr(profile, "use_hashtags") THEN <<>>
         ELSE IF profile.use_hashtags
              THEN <<"Hashtags allowed only when appropriate.">>
              ELSE <<"DO NOT use hashtags anywhere.">>)
        \o
        (IF ~hasattr(profile, "length_pref") THEN <<>>
         ELSE IF profile.length_pref = "short"
              THEN <<"Keep the email concise and short.">>
         ELSE IF profile.length_pref = "long"
              THEN <<"Provide detailed, structured email content.">>
         ELSE <<"Use a balanced medium length.">>)
        \o
        (IF ~hasattr(profile, "creativity_level") THEN <<>>
         ELSE IF profile.creativity_level <= 3
              THEN <<"Very professional, logical, minimal flair.">>
         ELSE IF profile.creativity_level <= 7
              THEN <<"Balanced professionalism and personality.">>
         ELSE <<"Creative, engaging, persuasive voice.">>)
        \o
        (IF ~hasattr(profile, "cta_style") THEN <<>>
         ELSE IF profile.cta_style = "soft"
              THEN <<"Use a soft and friendly call-to-action.">>
         ELSE IF profile.cta_style = "aggressive"
              THEN <<"Use a strong and direct call-to-action.">>
         ELSE <<"Use a balanced professional CTA.">>)
        \o
        (IF profile.brand_tone # ""
         THEN <<"Brand tone: " \o profile.brand_tone \o ".">>
         ELSE <<>>))

(* the builder each generation handler calls *)
Directives(kind, profile) ==
    IF kind = "ad" THEN ads_personality_rules(profile)
    ELSE IF kind = "content" THEN build_behavior_rules(profile)
    ELSE build_email_personality(profile)

(* a handler of the given kind has queried the profile and builds its rules *)
build_rules(kind, profile) ==
    /\ last' = [kind |-> kind, profile |-> profile,
                raised |-> Directives(kind, profile).raised,
                rules |-> Directives(kind, profile).rules]
    /\ UNCHANGED <<now, users, profiles, saved, reqs, creds, issued, tasks>>

(* mutant: the builder's list of rules is kept between calls and grows *)
build_rules_again_accumulating ==
    /\ "rules" \in DOMAIN last
    /\ "again" \notin DOMAIN last
    /\ LET d == Directives(last.kind, last.profile)
       IN  last' = last @@ [again |-> [raised |-> d.raised,
                                       rules |-> last.rules \o d.rules]]
    /\ UNCHANGED <<now, users, profiles, saved, reqs, creds, issued, tasks>>

(* the next request of the same kind finds the same profile and builds its
   rules: the builder is called a second time on an identical object *)
build_rules_again ==
    /\ "rules" \in DOMAIN last
    /\ "again" \notin DOMAIN last
    /\ LET d == Directives(last.kind, last.profile)
       IN  last' = last @@ [again |-> [raised |-> d.raised, rules |-> d.rules]]
    /\ UNCHANGED <<now, users, profiles, saved, reqs, creds, issued, tasks>>

(* the platform of a request: omitted (None or empty), one a handler knows,
   in another case, one no handler knows *)
Platforms ==
    {"", "instagram", "tiktok", "TikTok", "twitter", "linkedin", "meta",
     "google", "snapchat"}

(* ai/content_routes.py platform_instructions, one element per line (the
   dashes of "2-4" and "6-12" in ASCII) *)
platform_instructions(platform) ==
    IF lower(platform) = "tiktok"
    THEN << "Format for TikTok captions:", "- Short punchy hooks",
            "- Casual bold tone", "- Emojis allowed", "- 2-4 short lines only" >>
    ELSE IF lower(platform) = "twitter"
    THEN << "Format for X (Twitter):", "- Max 280 characters per post",
            "- Strong hooks", "- No unnecessary hashtags" >>
    ELSE IF lower(platform) = "linkedin"
    THEN << "Format for LinkedIn:", "- Professional tone", "- Value-driven",
            "- Line breaks", "- No emojis" >>
    ELSE << "Format for Instagram:", "- Hook first line", "- 2-4 lines max",
            "- Emojis allowed", "- 6-12 relevant hashtags" >>

(* ai/ads_routes.py generate_ads, PLATFORM LOGIC: platform_format starts empty
   and is set for meta, google and tiktok *)
ads_platform_format(platform) ==
    IF platform = "meta"
    THEN << "Write Facebook + Instagram style ads.", "- Strong hook first line",
            "- Skimmable short sentences", "- Optional emojis if allowed",
            "- 1 CTA" >>
    ELSE IF platform = "google"
    THEN << "Write Google Search Ads.", "- Short headlines",
            "- Compelling descriptions", "- Clear value clarity",
            "- 1 CTA phrase" >>
    ELSE IF platform = "tiktok"
    THEN << "Write TikTok Ad captions.", "- Fast hook", "- Energetic language",
            "- Relatable tone" >>
    ELSE <<>>

(* the platform a handler takes when the request names none *)
DefaultPlatform(kind) == IF kind = "ad" THEN "meta" ELSE "instagram"

(* the formatting block a handler puts into its system prompt *)
PlatformFormat(kind, data_platform) ==
    LET platform == lower(IF data_platform = "" THEN DefaultPlatform(kind)
                          ELSE data_platform)
    IN  IF kind = "ad" THEN ads_platform_format(platform)
        ELSE platform_instructions(platform)

(* a handler of the given kind builds its formatting block *)
build_format(kind, data_platform) ==
    /\ last' = [kind |-> kind, platform |-> data_platform,
                format |-> PlatformFormat(kind, data_platform)]
    /\ UNCHANGED <<now, users, profiles, saved, reqs, creds, issued, tasks>>

DirectiveInit ==
    /\ now = StartTime
    /\ users = [x \in UserIds |-> Row("Free", RegisterLimit, 0, StartTime)]
    /\ profiles = <<>>
    /\ saved = <<>>
    /\ reqs = [r \in ReqIds |-> IdleReq]
    /\ last = NoResponse
    /\ creds = [x \in DOMAIN users |-> FirstCred]
    /\ issued = <<>>
    /\ tasks = <<>>

DirectiveNext ==
    \/ \E p \in ProfileObjects : build_rules("ad", p)
    \/ \E p \in ProfileObjects : build_rules("content", p)
    \/ \E p \in ProfileObjects : build_rules("email", p)
    \/ build_rules_again
    \/ \E kind \in {"ad", "content"}, p \in Platforms : build_format(kind, p)

DirectiveSpec == DirectiveInit /\ [][DirectiveNext]_vars

----------------------------------------------------------------------------
(* ProfileSpec: generation requests of every kind, profile reads and profile
   updates, served one after the other, for accounts with and without a row
   in profiles. *)

(* routes/profile_routes.py get_profile: what it returns when there is no row *)
ProfileDefaults == PersonalityProfile("", TRUE, TRUE, "medium", 5, "balanced")

(* routes/profile_routes.py get_profile.  With no row it returns the defaults;
   with a row it reads profile.use_emojis, which the Profile model does not
   declare: AttributeError. *)
get_profile(r) ==
    /\ reqs[r].pc = "loaded"
    /\ reqs[r].kind = "profile_read"
    /\ IF reqs[r].uid \in DOMAIN profiles
       THEN last' = Response(reqs[r], TRUE, FALSE, "none", FALSE, "none", "error")
                       @@ [body |-> NoProfile]
       ELSE last' = Response(reqs[r], TRUE, FALSE, "none", FALSE, "none", "ok")
                       @@ [body |-> ProfileDefaults]
    /\ reqs' = [reqs EXCEPT ![r] = IdleReq]
    /\ UNCHANGED <<now, users, profiles, saved, creds, issued, tasks>>

ProfileNext ==
    \/ AllIdle /\ \E r \in ReqIds, u \in UserIds,
                     k \in GenKinds \cup {"profile_read", "profile_update"} :
                     get_current_user(r, u, k)
    \/ \E r \in ReqIds, valid \in BOOLEAN : generate_check(r, valid, FALSE)
    \/ \E r \in ReqIds, api \in ApiResults : generate_complete(r, api, TRUE)
    \/ \E r \in ReqIds : get_profile(r)
    \/ \E r \in ReqIds, t \in ProfileTones : update_profile(r, t)

ProfileSpec == Init /\ [][ProfileNext]_vars

----------------------------------------------------------------------------
(* AuthSpec: password-reset links are requested and used as the time passes.
   An account's e-mail address is its id; a time is a count of hours. *)

(* the addresses a reset is asked for: those of the accounts and one unknown *)
AuthEmails == 1..(NumUsers + 1)

(* the tokens a reset request can carry: every one that is ever generated and
   one that never is *)
Tokens == 1..(MaxTokens + 1)

(* the new passwords of a reset request; "" is a request without one *)
NewPasswords == {"", "pw1", "pw2"}

(* the response of an endpoint that takes no access token *)
AuthResponse(kind, uid, token, resp) ==
    Response([IdleReq EXCEPT !.kind = kind, !.uid = uid],
             TRUE, FALSE, "none", FALSE, "none", resp) @@ [token |-> token]

(* routes/auth_routes.py forgot_password: secrets.token_urlsafe returns a
   value it has not returned before.  The answer is the same whether or not
   the account exists; a failure to send the e-mail is swallowed. *)
forgot_password(email) ==
    /\ Len(issued) < MaxTokens
    /\ IF email = NULL
       THEN /\ last' = AuthResponse("forgot_password", 0, NULL, "bad_request")
            /\ UNCHANGED <<creds, issued>>
       ELSE IF email \notin DOMAIN creds
       THEN /\ last' = AuthResponse("forgot_password", 0, NULL, "ok")
            /\ UNCHANGED <<creds, issued>>
       ELSE LET token == Len(issued) + 1
            IN  /\ creds' = [creds EXCEPT ![email] =
                               [@ EXCEPT !.reset_token = token,
                                         !.reset_token_expires = now + ResetTokenHours]]
                /\ issued' = Append(issued, [user_id |-> email, token |-> token])
                /\ last' = AuthResponse("forgot_password", 0, NULL, "ok")
    /\ UNCHANGED <<now, users, profiles, saved, reqs, tasks>>

(* mutant: the token stays on the row after the reset *)
reset_password_keep_token(token, new_password) ==
    /\ IF token = NULL \/ new_password = ""
       THEN /\ last' = AuthResponse("reset_password", 0, token, "bad_request")
            /\ creds' = creds
       ELSE IF \A u \in DOMAIN creds : creds[u].reset_token # token
       THEN /\ last' = AuthResponse("reset_password", 0, token, "bad_request")
            /\ creds' = creds
       ELSE LET u == CHOOSE x \in DOMAIN creds : creds[x].reset_token = token
            IN  IF creds[u].reset_token_expires = NULL
                   \/ creds[u].reset_token_expires < now
                THEN /\ last' = AuthResponse("reset_password", u, token, "bad_request")
                     /\ creds' = creds
                ELSE /\ last' = AuthResponse("reset_password", u, token, "ok")
                     /\ creds' = [creds EXCEPT ![u] =
                                    [@ EXCEPT !.password = hashpw(new_password)]]
    /\ UNCHANGED <<now, users, profiles, saved, reqs, issued, tasks>>

(* routes/auth_routes.py reset_password: every rejection is a 400 *)
reset_password(token, new_password) ==
    /\ IF token = NULL \/ new_password = ""
       THEN /\ last' = AuthResponse("reset_password", 0, token, "bad_request")
            /\ creds' = creds
       ELSE IF \A u \in DOMAIN creds : creds[u].reset_token # token
       THEN /\ last' = AuthResponse("reset_password", 0, token, "bad_request")
            /\ creds' = creds
       ELSE LET u == CHOOSE x \in DOMAIN creds : creds[x].reset_token = token
            IN  IF creds[u].reset_token_expires = NULL
                   \/ creds[u].reset_token_expires < now
                THEN /\ last' = AuthResponse("reset_password", u, token, "bad_request")
                     /\ creds' = creds
                ELSE /\ last' = AuthResponse("reset_password", u, token, "ok")
                     /\ creds' = [creds EXCEPT ![u] =
                                    Cred(hashpw(new_password), NULL, NULL)]
    /\ UNCHANGED <<now, users, profiles, saved, reqs, issued, tasks>>

AuthInit ==
    /\ now = StartTime
    /\ users = [x \in UserIds |-> Row("Free", RegisterLimit, 0, StartTime)]
    /\ profiles = <<>>
    /\ saved = <<>>
    /\ reqs = [r \in ReqIds |-> IdleReq]
    /\ last = NoResponse
    /\ creds = [x \in DOMAIN users |-> FirstCred]
    /\ issued = <<>>
    /\ tasks = <<>>

AuthNext ==
    \/ \E email \in {NULL} \cup AuthEmails : forgot_password(email)
    \/ \E token \in {NULL} \cup Tokens, new_password \in NewPasswords :
          reset_password(token, new_password)
    \/ Tick

AuthSpec == AuthInit /\ [][AuthNext]_vars

----------------------------------------------------------------------------
(* LedgerSpec: accounts register, generate, ask for their usage and their
   account data and are upgraded, one operation after the other, as the time
   passes. *)

(* the table is empty, or holds an account that these operations have brought
   to a count of zero, to the last unit of its limit, or to its limit *)
LedgerInit ==
    /\ now = StartTime
    /\ \/ users = <<>>
       \/ \E p \in StoredPlans, t \in {StartTime - 1, StartTime} :
             \E c \in StoredCounts(p) \ {NULL} :
                users = [x \in {1} |->
                           Row(p, IF p = "Free" THEN RegisterLimit
                                  ELSE WebhookMonthlyLimit(p, NULL), c, t)]
    /\ profiles = <<>>
    /\ saved = <<>>
    /\ reqs = [r \in ReqIds |-> IdleReq]
    /\ last = NoResponse
    /\ creds = [x \in DOMAIN users |-> FirstCred]
    /\ issued = <<>>
    /\ tasks = <<>>

(* routes/auth_routes.py me: the handler decodes the access token and reads
   the row itself; the limit it reports is the monthly_limit column, and
   monthly_limit - None is a TypeError *)
me(user_id) ==
    /\ IF user_id \notin DOMAIN users
       THEN last' = Response([IdleReq EXCEPT !.kind = "me", !.uid = user_id],
                             TRUE, FALSE, "none", FALSE, "none", "not_found")
       ELSE LET q == [IdleReq EXCEPT !.kind = "me", !.uid = user_id,
                                     !.loaded = users[user_id],
                                     !.checked = users[user_id]]
                raises == users[user_id].monthly_limit # NULL
                          /\ users[user_id].used = NULL
            IN  last' = [Response(q, TRUE, FALSE, "none", FALSE, "none",
                                  IF raises THEN "error" ELSE "ok")
                           EXCEPT !.limit = users[user_id].monthly_limit]
    /\ UNCHANGED <<now, users, profiles, saved, reqs, creds, issued, tasks>>

LedgerNext ==
    \/ AllIdle /\ register
    \/ AllIdle /\ \E u \in EventUserIds : me(u)
    \/ AllIdle /\ \E r \in ReqIds, u \in UserIds, k \in {"email", "usage"} :
                     get_current_user(r, u, k)
    \/ \E r \in ReqIds : generate_check(r, TRUE, FALSE)
    \/ \E r \in ReqIds, api \in ApiResults, commit_ok \in BOOLEAN :
          generate_complete(r, api, commit_ok)
    \/ \E r \in ReqIds : get_usage(r)
    \/ AllIdle /\ \E u \in EventUserIds, p \in CheckoutPlans : stripe_webhook(u, p)
    \/ Tick

LedgerSpec == LedgerInit /\ [][LedgerNext]_vars

----------------------------------------------------------------------------
(* TaskSpec: two accounts create, toggle and delete dashboard tasks, one
   request after the other. *)

(* the task ids a request can name: every id a task can have and one more *)
TaskIds == 1..(MaxTasks + 1)

TaskRow(user_id, is_done) == [user_id |-> user_id, is_done |-> is_done]

(* the response of a task handler, with the task it was about *)
TaskResponse(q, task_id, resp) ==
    Response(q, TRUE, FALSE, "none", FALSE, "none", resp) @@ [task |-> task_id]

(* mutant: the query filters on the id alone *)
TaskFound_any_owner(task_id, uid) ==
    task_id \in DOMAIN tasks

(* Task.id == task_id, Task.user_id == user.id *)
TaskFound(task_id, uid) ==
    task_id \in DOMAIN tasks /\ tasks[task_id].user_id = uid

(* routes/dashboard_routes.py create_task: the new row takes the next id *)
create_task(r) ==
    /\ reqs[r].pc = "loaded"
    /\ reqs[r].kind = "task_create"
    /\ LET id == IF DOMAIN tasks = {} THEN 1
                 ELSE 1 + CHOOSE x \in DOMAIN tasks : \A y \in DOMAIN tasks : y <= x
       IN  /\ id <= MaxTasks
           /\ tasks' = [x \in DOMAIN tasks \cup {id} |->
                          IF x = id THEN TaskRow(reqs[r].uid, FALSE) ELSE tasks[x]]
           /\ last' = TaskResponse(reqs[r], id, "ok")
    /\ reqs' = [reqs EXCEPT ![r] = IdleReq]
    /\ UNCHANGED <<now, users, profiles, saved, creds, issued>>

(* routes/dashboard_routes.py toggle_task *)
toggle_task(r, task_id) ==
    /\ reqs[r].pc = "loaded"
    /\ reqs[r].kind = "task_toggle"
    /\ IF TaskFound(task_id, reqs[r].uid)
       THEN /\ tasks' = [tasks EXCEPT ![task_id].is_done = ~@]
            /\ last' = TaskResponse(reqs[r], task_id, "ok") @@
                          [is_done |-> ~tasks[task_id].is_done]
       ELSE /\ tasks' = tasks
            /\ last' = TaskResponse(reqs[r], task_id, "not_found")
    /\ reqs' = [reqs EXCEPT ![r] = IdleReq]
    /\ UNCHANGED <<now, users, profiles, saved, creds, issued>>

(* routes/dashboard_routes.py delete_task *)
delete_task(r, task_id) ==
    /\ reqs[r].pc = "loaded"
    /\ reqs[r].kind = "task_delete"
    /\ IF TaskFound(task_id, reqs[r].uid)
       THEN /\ tasks' = [x \in DOMAIN tasks \ {task_id} |-> tasks[x]]
            /\ last' = TaskResponse(reqs[r], task_id, "ok")
       ELSE /\ tasks' = tasks
            /\ last' = TaskResponse(reqs[r], task_id, "not_found")
    /\ reqs' = [reqs EXCEPT ![r] = IdleReq]
    /\ UNCHANGED <<now, users, profiles, saved, creds, issued>>

TaskInit ==
    /\ now = StartTime
    /\ users = [x \in ConcUserIds |-> Row("Free", RegisterLimit, 0, StartTime)]
    /\ profiles = <<>>
    /\ saved = <<>>
    /\ reqs = [r \in ReqIds |-> IdleReq]
    /\ last = NoResponse
    /\ creds = [x \in DOMAIN users |-> FirstCred]
    /\ issued = <<>>
    /\ tasks = <<>>

TaskNext ==
    \/ AllIdle /\ \E r \in ReqIds, u \in ConcUserIds,
                     k \in {"task_create", "task_toggle", "task_delete"} :
                     get_current_user(r, u, k)
    \/ \E r \in ReqIds : create_task(r)
    \/ \E r \in ReqIds, t \in TaskIds : toggle_task(r, t)
    \/ \E r \in ReqIds, t \in TaskIds : delete_task(r, t)

TaskSpec == TaskInit /\ [][TaskNext]_vars

----------------------------------------------------------------------------
(* Vocabulary of the properties *)

(* the artifacts of account u, in insertion order *)
SavedOf(table, u) == SelectSeq(table, LAMBDA row : row.user_id = u)

(* a checkout event has set this row's monthly_limit *)
Upgraded(user) ==
    user.monthly_limit \in {WebhookBasicLimit, WebhookGrowthLimit, WebhookProLimit}

(* this step is the webhook handling a checkout event *)
WebhookStep == last'.kind = "webhook" /\ reqs' = reqs /\ now' = now

(* the calendar month of t1 is before the calendar month of t2 *)
PriorMonth(t1, t2) ==
    \/ YearOf(t1) < YearOf(t2)
    \/ YearOf(t1) = YearOf(t2) /\ MonthOf(t1) < MonthOf(t2)

(* this step is worker r's usage request running reset_if_new_month and
   committing *)
UsageStep(r) ==
    /\ reqs[r].pc = "loaded"
    /\ reqs[r].kind = "usage"
    /\ reqs'[r].pc = "idle"

SameMonth(t1, t2) == MonthOf(t1) = MonthOf(t2) /\ YearOf(t1) = YearOf(t2)

(* the count is at or over the finite limit of the plan *)
AtLimit(user) ==
    /\ get_user_limit(user.plan) # NULL
    /\ user.used # NULL
    /\ user.used >= get_user_limit(user.plan)

(* the limit comparison completes and lets the request through *)
UnderLimit(user) ==
    \/ get_user_limit(user.plan) = NULL
    \/ user.used # NULL /\ user.used < get_user_limit(user.plan)

CountOf(user) == IF user.used = NULL THEN 0 ELSE user.used

(* this step returns the response of a generation request *)
GenResponds == last' # last /\ last'.kind \in GenKinds

(* this step is the commit of worker r's generation request *)
Commits(r) ==
    /\ reqs[r].pc = "calling"
    /\ reqs'[r].pc = "imaging" \/ (reqs'[r].pc = "idle" /\ last'.stored)

Lower(p) ==
    IF p \in {"free", "Free"} THEN "free"
    ELSE IF p \in {"basic", "BASIC"} THEN "basic"
    ELSE IF p \in {"growth", "Growth"} THEN "growth"
    ELSE IF p \in {"pro", "Pro"} THEN "pro"
    ELSE p

----------------------------------------------------------------------------
(* C1: a generation request that finds the post-reset count at or over the
   plan's finite limit is answered with the quota-exceeded rejection; the
   model API is not called for it, no SavedContent row is written and the
   users table is left as it was. *)
C1_QuotaExceededRejects ==
    [][ /\ (GenResponds /\ AtLimit(last'.checked))
              => /\ last'.resp = "quota"
                 /\ ~last'.called
                 /\ ~last'.stored
                 /\ saved' = saved
                 /\ users' = users
        /\ \A r \in ReqIds :
              reqs'[r].pc \in {"calling", "imaging"} => ~AtLimit(reqs'[r].checked)
      ]_vars

C1_Witness ==
    /\ last.kind \in GenKinds
    /\ last.resp = "quota"
    /\ AtLimit(last.checked)
    /\ ~last.called
    /\ users[last.uid].used = last.checked.used

(* C2: on a plan with the finite limit N a generation request is rejected
   with the quota-exceeded rejection exactly when N or more units are
   consumed: at N - 1 it passes, at N it is rejected. *)
C2_LimitBoundary ==
    (last.kind \in GenKinds /\ last.limit # NULL /\ last.checked.used # NULL)
        => (last.resp = "quota" <=> last.checked.used >= last.limit)

(* the unit N - 1 -> N was consumed in this run, and the next request is rejected *)
C2_Witness ==
    /\ last.kind \in GenKinds
    /\ last.resp = "quota"
    /\ last.checked.used = last.limit
    /\ \E i \in 1..Len(saved) : saved[i].user_id = last.uid

(* C3: on the plans growth and pro no generation request is answered with the
   quota-exceeded rejection, whatever the count. *)
C3_UnlimitedNeverRejected ==
    (last.kind \in GenKinds /\ last.checked.plan \in {"growth", "pro"})
        => last.resp # "quota"

C3_Witness ==
    /\ last.kind \in GenKinds
    /\ last.checked.plan \in {"growth", "pro"}
    /\ last.checked.used >= BasicLimit
    /\ last.resp = "ok"
    /\ users[last.uid].used = last.checked.used + 1

(* C4: a generation request is rejected with the quota-exceeded rejection only
   on a count of the current calendar month: the row it loaded was last reset
   in the month of the request. *)
C4_ResetBeforeLimit ==
    [][ \A r \in ReqIds :
          (reqs[r].pc = "loaded" /\ reqs'[r].pc = "idle" /\ last'.resp = "quota")
             => /\ reqs[r].loaded.last_reset # NULL
                /\ SameMonth(reqs[r].loaded.last_reset, now)
      ]_vars

(* a count at the limit, left from an earlier month, and the request goes on
   to the model API *)
C4_Witness ==
    \E r \in ReqIds :
        /\ reqs[r].pc = "calling"
        /\ reqs[r].loaded.last_reset # NULL
        /\ ~SameMonth(reqs[r].loaded.last_reset, reqs[r].checked.last_reset)
        /\ AtLimit(reqs[r].loaded)

(* C5: when the model API returns empty text or raises, the request is
   answered with the generation-failed error, no SavedContent row is written
   and no count changes. *)
C5_EmptyOutputFails ==
    [][ (GenResponds /\ last'.called /\ last'.api \in {"empty", "raise"})
           => /\ last'.resp = "genfail"
              /\ ~last'.stored
              /\ saved' = saved
              /\ users' = users
      ]_vars

C5_Witness ==
    /\ last.kind \in GenKinds
    /\ last.called
    /\ last.api = "empty"
    /\ last.resp = "genfail"

(* C6: the commit of a generation request sets the count to the post-reset
   count plus one, a NULL count counting as 0; and a count takes a new
   non-zero value only in the commit of a request whose model API call
   returned non-empty text. *)
C6_ConsumeExactlyOne ==
    [][ \A u \in DOMAIN users :
          /\ \A r \in ReqIds :
                (Commits(r) /\ reqs[r].uid = u)
                   => /\ users'[u].used = CountOf(reqs[r].checked) + 1
                      /\ reqs[r].checked.used \in {users[u].used, 0}
          /\ (users'[u].used # users[u].used /\ users'[u].used # 0)
                => \E r \in ReqIds :
                      /\ Commits(r)
                      /\ reqs[r].uid = u
                      /\ reqs'[r].pc = "imaging" \/ last'.api = "text"
      ]_vars

(* a NULL count became 1 *)
C6_Witness ==
    /\ last.kind \in GenKinds
    /\ last.resp = "ok"
    /\ last.checked.used = NULL
    /\ users[last.uid].used = 1

(* C7: every step either writes one SavedContent row of the committing
   request and sets that account's count to its post-reset count plus one, or
   writes no row and increments no count; the image API's reply does neither. *)
C7_PersistAndConsumeTogether ==
    [][ \/ /\ saved' = saved
           /\ \A u \in DOMAIN users :
                 users'[u].used = users[u].used \/ users'[u].used = 0
        \/ \E r \in ReqIds :
              /\ Commits(r)
              /\ saved' = Append(saved, [user_id |-> reqs[r].uid,
                                         content_type |-> reqs[r].kind])
              /\ users'[reqs[r].uid].used = CountOf(reqs[r].checked) + 1
              /\ \A u \in DOMAIN users \ {reqs[r].uid} : users'[u] = users[u]
      ]_vars

(* the text was committed with its unit of quota, then the image API failed *)
C7_Witness ==
    /\ last.kind = "content"
    /\ last.img = "failed"
    /\ last.resp = "genfail"
    /\ last.stored
    /\ \E i \in 1..Len(saved) : saved[i].user_id = last.uid
    /\ users[last.uid].used = CountOf(last.checked) + 1

(* C8, as claimed: a generation request with its required input missing is
   answered with the validation error, also when the account is at its limit. *)
C8_ValidationBeforeQuota ==
    (last.kind \in GenKinds /\ ~last.valid /\ last.checked.used # NULL)
        => last.resp = "invalid"

(* C8, amended: the limit is compared first. A generation request with its
   required input missing never reaches the model API and writes nothing; it
   is answered with the quota-exceeded rejection when the account is at its
   limit and with the validation error when the limit comparison lets it
   through. *)
C8_QuotaBeforeValidation ==
    (last.kind \in GenKinds /\ ~last.valid)
        => /\ ~last.called
           /\ ~last.stored
           /\ AtLimit(last.checked) => last.resp = "quota"
           /\ UnderLimit(last.checked) => last.resp = "invalid"

C8_Witness ==
    /\ last.kind \in GenKinds
    /\ ~last.valid
    /\ AtLimit(last.checked)
    /\ last.resp = "quota"

(* C9, as claimed: the limit an account is given is the limit of its plan
   whatever the spelling of the plan's name, and the free limit for a name
   that is no plan. *)
C9_CaseInsensitiveLimit ==
    last.kind = "usage"
        => last.limit = (IF Lower(last.checked.plan) \in PlanKeys
                         THEN PLAN_LIMITS(Lower(last.checked.plan))
                         ELSE FreeLimit)

(* C10: reset_if_new_month applied a second time, at any time of the same
   calendar month, changes nothing: for the object of every request about to
   be handled and for every stored row. *)
C10_ResetIdempotent ==
    \A t2 \in Times :
        SameMonth(now, t2) =>
            /\ \A r \in ReqIds :
                  reqs[r].pc = "loaded" =>
                     reset_if_new_month(reset_if_new_month(reqs[r].user, now), t2)
                        = reset_if_new_month(reqs[r].user, now)
            /\ \A u \in DOMAIN users :
                  reset_if_new_month(reset_if_new_month(users[u], now), t2)
                     = reset_if_new_month(users[u], now)

(* the first call resets a stale row, and a later time of the month exists *)
C10_Witness ==
    \E r \in ReqIds, t2 \in Times :
        /\ reqs[r].pc = "loaded"
        /\ t2 > now
        /\ SameMonth(now, t2)
        /\ reqs[r].user.used > 0
        /\ reset_if_new_month(reqs[r].user, now) # reqs[r].user

(* C11: one call of reset_if_new_month on a row whose last_reset lies in an
   earlier calendar month (the same month number of an earlier year included)
   sets the count to 0 and last_reset to the current time; on a row whose
   last_reset has the month and the year of the current time it changes
   nothing. *)
C11_ResetOnNewMonth ==
    [][ \A r \in ReqIds :
          (UsageStep(r) /\ users[reqs[r].uid].last_reset # NULL)
             => LET u == reqs[r].uid
                IN  /\ PriorMonth(users[u].last_reset, now)
                          => /\ users'[u].used = 0
                             /\ users'[u].last_reset = now
                    /\ SameMonth(users[u].last_reset, now) => users'[u] = users[u]
      ]_vars

(* a count of the same month number, one year earlier, was reset *)
C11_Witness ==
    /\ last.kind = "usage"
    /\ last.loaded.last_reset # NULL
    /\ last.loaded.used > 0
    /\ MonthOf(last.loaded.last_reset) = MonthOf(last.checked.last_reset)
    /\ YearOf(last.loaded.last_reset) < YearOf(last.checked.last_reset)
    /\ last.checked.used = 0
    /\ users[last.uid] = last.checked

(* C12: one call of reset_if_new_month on a row whose last_reset is unset sets
   last_reset to the current time and the count to 0, whatever the count was. *)
C12_FirstUseInitializes ==
    [][ \A r \in ReqIds :
          (UsageStep(r) /\ users[reqs[r].uid].last_reset = NULL)
             => /\ users'[reqs[r].uid].last_reset = now
                /\ users'[reqs[r].uid].used = 0
      ]_vars

C12_Witness ==
    /\ last.kind = "usage"
    /\ last.loaded.last_reset = NULL
    /\ last.loaded.used > 0
    /\ last.checked.last_reset # NULL
    /\ last.checked.used = 0
    /\ users[last.uid] = last.checked

(* C13, as claimed: no call of reset_if_new_month, at whatever reading of the
   clock, sets last_reset to an earlier time than it held. *)
C13_NeverRollsBack ==
    [][ \A u \in DOMAIN users : users'[u].last_reset >= users[u].last_reset ]_vars

(* C14: within the calendar month in which a checkout event upgraded an
   account, no step of a request lowers that account's count: the reset that
   the first request after the upgrade may run finds the count at 0, and the
   counts consumed afterwards are not wiped, whatever last_reset held when the
   event arrived. *)
C14_NoResetAfterUpgrade ==
    [][ \A u \in DOMAIN users :
          (Upgraded(users[u]) /\ reqs' # reqs) => users'[u].used >= users[u].used
      ]_vars

(* a generation consumed after the upgrade is still counted when the usage is
   asked for *)
C14_Witness ==
    /\ last.kind = "usage"
    /\ Upgraded(last.loaded)
    /\ last.loaded.used = 1
    /\ last.checked.used = 1
    /\ users[last.uid].used = 1
    /\ \E i \in 1..Len(saved) : saved[i].user_id = last.uid

(* C15: the webhook handling a checkout event for an existing account sets
   the account's plan to the plan of the event and its count to 0 in one
   step and touches no other account, no profile and no artifact; for an id
   that is no account it changes nothing. *)
C15_UpgradeSetsPlanAndResets ==
    [][ WebhookStep =>
          LET u == last'.uid
              p == last'.checked.plan
          IN  /\ saved' = saved
              /\ profiles' = profiles
              /\ DOMAIN users' = DOMAIN users
              /\ IF u \in DOMAIN users
                 THEN /\ users'[u].plan = p
                      /\ users'[u].used = 0
                      /\ users'[u].last_reset = users[u].last_reset
                      /\ \A v \in DOMAIN users \ {u} : users'[v] = users[v]
                 ELSE users' = users
      ]_vars

(* an account that had consumed a generation was upgraded to pro *)
C15_Witness ==
    /\ last.kind = "webhook"
    /\ last.uid \in DOMAIN users
    /\ last.checked.plan = "pro"
    /\ users[last.uid].plan = "pro"
    /\ users[last.uid].monthly_limit = WebhookProLimit
    /\ users[last.uid].used = 0
    /\ \E i \in 1..Len(saved) : saved[i].user_id = last.uid

(* C16: the check-then-increment is an unguarded read-modify-write: a
   request passes the limit comparison on the count it read when it arrived
   and commits that count plus one, whatever has been committed to the row
   in between. *)
C16_UnguardedReadModifyWrite ==
    [][ \A r \in ReqIds :
          Commits(r) => /\ UnderLimit(reqs[r].checked)
                        /\ users'[reqs[r].uid].used = CountOf(reqs[r].checked) + 1
      ]_vars

(* two requests of one account both passed the comparison at limit - 1 and both
   succeeded: two artifacts, limit + 1 generations in the month, and a stored
   count of limit *)
C16_Witness ==
    /\ last.kind \in GenKinds
    /\ last.resp = "ok"
    /\ last.limit # NULL
    /\ last.loaded.used = last.limit - 1
    /\ last.checked.used = last.limit - 1
    /\ Len(SavedOf(saved, last.uid)) = 2
    /\ users[last.uid].used = last.limit

(* C17: a step of a generation, usage or profile request of account A leaves
   the users row, the profile and the artifacts of every other account as they
   were, in every interleaving. *)
C17_AccountsIsolated ==
    [][ \A r \in ReqIds :
          reqs'[r] # reqs[r] =>
             LET a == IF reqs[r].pc = "idle" THEN reqs'[r].uid ELSE reqs[r].uid
             IN  \A b \in DOMAIN users \ {a} :
                    /\ users'[b] = users[b]
                    /\ (b \in DOMAIN profiles') = (b \in DOMAIN profiles)
                    /\ b \in DOMAIN profiles => profiles'[b] = profiles[b]
                    /\ SavedOf(saved', b) = SavedOf(saved, b)
      ]_vars

(* an account updated its profile while another account, which has a profile
   and an artifact of its own, kept both *)
C17_Witness ==
    /\ last.kind = "profile_update"
    /\ last.resp = "ok"
    /\ profiles[last.uid].brand_tone = "bold"
    /\ \E b \in DOMAIN profiles \ {last.uid} :
          /\ profiles[b].brand_tone = ""
          /\ Len(SavedOf(saved, b)) > 0
          /\ users[b].used > 0

(* C18: the saved_content table only grows, by one row per step: the row of a
   generation request whose model API call returned non-empty text, owned by
   that request's account; the rows it holds are never changed or removed. *)
C18_ArtifactsAppendOnly ==
    [][ \/ saved' = saved
        \/ \E r \in ReqIds :
              /\ reqs[r].pc = "calling"
              /\ reqs[r].kind \in GenKinds
              /\ saved' = Append(saved, [user_id |-> reqs[r].uid,
                                         content_type |-> reqs[r].kind])
              /\ \/ reqs'[r].pc = "imaging"
                 \/ /\ last'.uid = reqs[r].uid
                    /\ last'.api = "text"
                    /\ last'.stored
      ]_vars

(* artifacts of two accounts, the older one still in place *)
C18_Witness ==
    /\ Len(saved) = 2
    /\ saved[1].user_id # saved[2].user_id
    /\ last.resp = "ok"
    /\ last.stored
    /\ last.uid = saved[2].user_id

(* the last step built the rules of a generation handler *)
RulesBuilt == last.kind \in GenKinds /\ "rules" \in DOMAIN last

(* the rules of a builder's result, as a set *)
RuleSet(rules) == {rules[i] : i \in DOMAIN rules}

(* the texts by which the builders allow emojis, allow hashtags, ask for medium
   length, ask for a balanced call to action, and set creativity to 5 (the
   posts' "Normal creativity" counted as such) *)
EmojisAllowedTexts ==
    {"Emojis allowed when natural.", "- Emojis allowed", "- Emojis allowed.",
     "You MAY use emojis when helpful but not childish."}

HashtagsAllowedTexts ==
    {"Use relevant hashtags when logical.", "- Hashtags allowed",
     "- Hashtags allowed where appropriate.",
     "Hashtags allowed only when appropriate."}

MediumLengthTexts ==
    {"Balanced ad length.", "- Medium length content",
     "- Medium length responses.", "Use a balanced medium length."}

BalancedCtaTexts ==
    {"Use confident but friendly CTA.", "Balanced CTA.",
     "Use a balanced professional CTA."}

DefaultCreativityTexts ==
    {"Creativity level: 5/10", "- Normal creativity",
     "- Medium creativity. Natural but not crazy.",
     "Balanced professionalism and personality."}

(* every text by which a builder states a call-to-action rule *)
CtaTexts ==
    BalancedCtaTexts
    \cup {"Use gentle CTA wording.", "Use strong, decisive CTA.",
          "- Soft marketing CTA", "- Use strong persuasive CTA.",
          "- No marketing CTA.", "- Use soft CTA tone.",
          "Use a soft and friendly call-to-action.",
          "Use a strong and direct call-to-action."}

ValidLengths == {"short", "medium", "long"}

ValidCtas == {"soft", "balanced", "aggressive"}

(* C19: with no profile, the rules built for ads, for posts and for emails
   are the same default set: emojis allowed, hashtags allowed, medium length,
   balanced call to action, creativity 5. *)
C19_SameDefaultDirectives ==
    (RulesBuilt /\ last.profile = NoProfile) =>
        /\ last.raised = "none"
        /\ RuleSet(last.rules) \cap EmojisAllowedTexts # {}
        /\ RuleSet(last.rules) \cap HashtagsAllowedTexts # {}
        /\ RuleSet(last.rules) \cap MediumLengthTexts # {}
        /\ RuleSet(last.rules) \cap BalancedCtaTexts # {}
        /\ RuleSet(last.rules) \cap DefaultCreativityTexts # {}

(* the ads handler, with no profile, built the five default rules *)
C19_Witness ==
    /\ RulesBuilt
    /\ last.kind = "ad"
    /\ last.profile = NoProfile
    /\ last.raised = "none"
    /\ RuleSet(last.rules) \cap MediumLengthTexts # {}
    /\ RuleSet(last.rules) \cap BalancedCtaTexts # {}

(* C20: in each builder, a profile whose length_pref is not one of short,
   medium, long gets the medium-length rule, and one whose cta_style is not
   one of soft, balanced, aggressive gets the balanced rule, or the rule the
   same builder gives for cta_style "balanced"; no exception is raised. *)
C20_UnknownFallsBack ==
    (/\ RulesBuilt
     /\ hasattr(last.profile, "length_pref")
     /\ last.profile.creativity_level # NULL) =>
        LET p == last.profile
            balanced == Directives(last.kind, [p EXCEPT !.cta_style = "balanced"])
        IN  /\ lower(p.length_pref) \notin ValidLengths =>
                 /\ last.raised = "none"
                 /\ RuleSet(last.rules) \cap MediumLengthTexts # {}
            /\ lower(p.cta_style) \notin ValidCtas =>
                 /\ last.raised = "none"
                 /\ \/ RuleSet(last.rules) \cap BalancedCtaTexts # {}
                    \/ RuleSet(last.rules) \cap CtaTexts
                         = RuleSet(balanced.rules) \cap CtaTexts

(* the emails' builder gave the medium and balanced rules to a profile with an
   unknown length_pref and an unknown cta_style *)
C20_Witness ==
    /\ RulesBuilt
    /\ last.kind = "email"
    /\ hasattr(last.profile, "length_pref")
    /\ last.profile.length_pref = "xl"
    /\ last.profile.cta_style = "pushy"
    /\ last.raised = "none"
    /\ "Use a balanced medium length." \in RuleSet(last.rules)
    /\ "Use a balanced professional CTA." \in RuleSet(last.rules)

(* C21: a request of an account that has no row in profiles is never failed
   by the missing row: a generation request of any kind either goes on to the
   model API or is answered with the quota rejection, the validation error or
   the error of a NULL count; a profile read is answered with the defaults. *)
C21_AbsentProfileNeverFails ==
    [][ \A r \in ReqIds :
          (/\ reqs[r].pc = "loaded"
           /\ reqs'[r] # reqs[r]
           /\ reqs[r].uid \notin DOMAIN profiles) =>
             /\ reqs[r].kind \in GenKinds =>
                   \/ reqs'[r].pc = "calling"
                   \/ last'.resp = "quota" /\ LimitReached(last'.checked)
                   \/ last'.resp = "invalid" /\ ~last'.valid
                   \/ last'.resp = "error" /\ LimitCheckRaises(last'.checked)
             /\ reqs[r].kind = "profile_read" =>
                   last'.resp = "ok" /\ last'.body = ProfileDefaults
      ]_vars

(* an ad request of an account with no profile, under its limit, is at the
   model API *)
C21_Witness ==
    \E r \in ReqIds :
       /\ reqs[r].pc = "calling"
       /\ reqs[r].kind = "ad"
       /\ reqs[r].uid \notin DOMAIN profiles
       /\ get_user_limit(reqs[r].checked.plan) # NULL
       /\ reqs[r].checked.used < get_user_limit(reqs[r].checked.plan)

(* the last step built the formatting block of a handler *)
FormatBuilt == last.kind \in GenKinds /\ "format" \in DOMAIN last

(* the platforms a handler has a formatting block for *)
KnownPlatforms(kind) ==
    IF kind = "ad" THEN {"meta", "google", "tiktok"}
    ELSE {"instagram", "tiktok", "twitter", "linkedin"}

(* C22: for posts and for ads, a request that names no platform, or one the
   handler does not know, gets the formatting block of the handler's default
   platform, not an empty one. *)
C22_PlatformDefaultFallback ==
    (/\ FormatBuilt
     /\ lower(last.platform) \notin KnownPlatforms(last.kind)) =>
        /\ last.format # <<>>
        /\ last.format = PlatformFormat(last.kind, DefaultPlatform(last.kind))

(* the posts' handler gave an unknown platform the Instagram block *)
C22_Witness ==
    /\ FormatBuilt
    /\ last.kind = "content"
    /\ last.platform = "snapchat"
    /\ last.format = platform_instructions("instagram")

(* C23: building the rules a second time from an identical profile gives the
   identical result (the same rules in the same order, or the same
   exception), and a step that builds rules leaves the users, profiles and
   saved_content tables as they were. *)
C23_DirectivesDeterministicAndPure ==
    /\ []("again" \in DOMAIN last =>
             /\ last.again.raised = last.raised
             /\ last.again.rules = last.rules)
    /\ [][ "rules" \in DOMAIN last' =>
             /\ users' = users
             /\ profiles' = profiles
             /\ saved' = saved ]_vars

(* the posts' builder was called twice on a profile with every attribute and
   gave its six rules both times *)
C23_Witness ==
    /\ RulesBuilt
    /\ "again" \in DOMAIN last
    /\ last.kind = "content"
    /\ hasattr(last.profile, "cta_style")
    /\ last.profile.cta_style = "strong"
    /\ Len(last.rules) > 1
    /\ last.again.rules = last.rules

(* the free tier: the plan a lookup of the limits names "free", and "Free",
   the spelling register stores *)
FreeTier(plan) == plan \in {"free", "Free"}

(* C24: no request of an account on the free tier, the plan as stored at
   registration included, gets to the image API, and a post request of such an
   account that asked for an image and got its text is answered with no image
   and the paid-users-only error. *)
C24_ImagesForPaidOnly ==
    /\ \A r \in ReqIds :
          reqs[r].pc = "imaging" => ~FreeTier(reqs[r].user.plan)
    /\ (/\ last.kind = "content"
        /\ last.image
        /\ last.stored
        /\ FreeTier(last.checked.plan)) => last.img = "locked"

(* this step is reset_password answering a request *)
ResetStep == last'.kind = "reset_password" /\ now' = now /\ issued' = issued

(* the last token generated for account u, NULL when there is none *)
LatestToken(u) ==
    LET mine == SelectSeq(issued, LAMBDA e : e.user_id = u)
    IN  IF mine = <<>> THEN NULL ELSE mine[Len(mine)].token

(* C25, its original statement: a reset succeeds only with the current token
   of an account whose expiry is in the future. *)
C25_OnlyBeforeExpiry ==
    [][ (ResetStep /\ last'.resp = "ok") =>
           \E u \in DOMAIN creds :
              /\ creds[u].reset_token = last'.token
              /\ creds[u].reset_token_expires # NULL
              /\ creds[u].reset_token_expires > now
      ]_vars

(* C25: a reset succeeds only with the token an account currently holds and
   not after its expiry; it sets that account's password and clears its token
   and expiry, so that the same token is rejected when it is sent again; the
   token an account holds is the last one generated for it; a rejected reset
   changes no password and no token. *)
C25_ResetTokenOnceUnexpired ==
    /\ [][ ResetStep =>
             IF last'.resp = "ok"
             THEN \E u \in DOMAIN creds :
                     /\ last'.token # NULL
                     /\ creds[u].reset_token = last'.token
                     /\ creds[u].reset_token_expires # NULL
                     /\ creds[u].reset_token_expires >= now
                     /\ creds'[u].password \in {hashpw(p) : p \in NewPasswords \ {""}}
                     /\ creds'[u].reset_token = NULL
                     /\ creds'[u].reset_token_expires = NULL
                     /\ \A v \in DOMAIN creds \ {u} : creds'[v] = creds[v]
             ELSE creds' = creds
         ]_vars
    /\ [][ (/\ ResetStep
            /\ last.kind = "reset_password"
            /\ last.resp = "ok"
            /\ last'.token = last.token
            /\ last' # last) => last'.resp # "ok"
         ]_vars
    /\ [](\A u \in DOMAIN creds :
             creds[u].reset_token # NULL => creds[u].reset_token = LatestToken(u))

(* an account asked for a link twice and reset its password with the second
   token, which is gone from its row *)
C25_Witness ==
    /\ last.kind = "reset_password"
    /\ last.resp = "ok"
    /\ Len(issued) = MaxTokens
    /\ last.uid = issued[1].user_id
    /\ last.token = LatestToken(last.uid)
    /\ last.token # issued[1].token
    /\ creds[last.uid].password = hashpw("pw1")
    /\ creds[last.uid].reset_token = NULL

(* C26: when register, generation, usage and upgrade operations run one after
   the other, the stored count of an account whose plan has a finite limit is
   at least 0 and at most that limit, in every state. *)
C26_CountWithinLimit ==
    \A u \in DOMAIN users :
       get_user_limit(users[u].plan) # NULL =>
          /\ users[u].used >= 0
          /\ users[u].used <= get_user_limit(users[u].plan)

(* a generation has taken the last unit of a finite limit *)
C26_Witness ==
    /\ last.kind \in GenKinds
    /\ last.resp = "ok"
    /\ last.limit # NULL
    /\ last.checked.used = last.limit - 1
    /\ users[last.uid].used = last.limit

(* C27: when a checkout event for an account is handled while a generation
   request that loaded the account earlier is in flight, the commit of that
   request leaves the count at no more than 1 and the plan as the event set
   it. *)
C27_UpgradeResetNotLost ==
    [][ \A r \in ReqIds :
          (/\ Commits(r)
           /\ users[reqs[r].uid].plan # reqs[r].loaded.plan
           /\ Upgraded(users[reqs[r].uid])) =>
             /\ users'[reqs[r].uid].used <= 1
             /\ users'[reqs[r].uid].plan = users[reqs[r].uid].plan
      ]_vars

(* a request that loaded an account with a count of 0 committed after the
   account's upgrade: count 1, upgraded plan *)
C27_Witness ==
    /\ last.kind \in GenKinds
    /\ last.resp = "ok"
    /\ last.loaded.used = 0
    /\ last.loaded.plan = "Free"
    /\ users[last.uid].plan = "pro"
    /\ users[last.uid].used = 1

(* C28: the limit that /me reports for an account, its monthly_limit column,
   is the limit that /usage reports and the generation handlers enforce for
   it, the lookup of its plan: both unlimited or the same number. *)
C28_ReportedLimitsAgree ==
    (last.kind = "me" /\ last.resp = "ok") =>
        last.limit = get_user_limit(users[last.uid].plan)

(* after an upgrade to basic, /me reports the limit the lookup gives *)
C28_Witness ==
    /\ last.kind = "me"
    /\ last.resp = "ok"
    /\ users[last.uid].plan = "basic"
    /\ last.limit = WebhookBasicLimit
    /\ get_user_limit(users[last.uid].plan) = last.limit

(* this step is worker r's toggle or delete request being handled *)
TaskStep(r) ==
    /\ reqs[r].pc = "loaded"
    /\ reqs[r].kind \in {"task_toggle", "task_delete"}
    /\ reqs'[r].pc = "idle"

(* C29: a toggle or delete for a task id that does not exist, or whose task
   belongs to another account, is answered not-found and leaves every task
   as it was; on a task of the requester, toggle flips is_done and leaves
   the rest, a second toggle gives back the value before the first, and
   delete removes that task and no other. *)
C29_TasksOwned ==
    [][ \A r \in ReqIds :
          TaskStep(r) =>
            LET id == last'.task
                uid == reqs[r].uid
            IN  IF id \notin DOMAIN tasks \/ tasks[id].user_id # uid
                THEN last'.resp = "not_found" /\ tasks' = tasks
                ELSE /\ last'.resp = "ok"
                     /\ \A x \in DOMAIN tasks \ {id} :
                           x \in DOMAIN tasks' /\ tasks'[x] = tasks[x]
                     /\ reqs[r].kind = "task_toggle" =>
                           /\ DOMAIN tasks' = DOMAIN tasks
                           /\ tasks'[id].user_id = uid
                           /\ tasks'[id].is_done = ~tasks[id].is_done
                           /\ (/\ last.kind = "task_toggle"
                               /\ last.resp = "ok"
                               /\ last.task = id) =>
                                 tasks'[id].is_done = ~last.is_done
                     /\ reqs[r].kind = "task_delete" =>
                           DOMAIN tasks' = DOMAIN tasks \ {id}
      ]_vars

(* an account asked to delete the task of another account: not found, the
   task is still there *)
C29_Witness ==
    /\ last.kind = "task_delete"
    /\ last.resp = "not_found"
    /\ last.task \in DOMAIN tasks
    /\ tasks[last.task].user_id # last.uid
    /\ tasks[last.task].is_done

====
